---- MODULE Spec2Model ----
(***************************************************************************)
(* The asynchronous video-processing pipeline of pulse-backend:            *)
(* VideoController.uploadVideo / deleteVideo, VideoProcessor.processVideo, *)
(* analyzeSensitivity, analyzeSensitivityMock, getVideoMetadata,           *)
(* extractFrames, the Video document store, and the socket handlers of     *)
(* index.js (connection, subscribe-video, unsubscribe-video, disconnect).  *)
(*                                                                         *)
(* Spec is the server with its first upload request and the run of that    *)
(* request; ConcurrentSpec is the server with all its upload requests and  *)
(* their runs interleaved; AnalysisSpec runs analyzeSensitivity as one     *)
(* step over a wider range of frame scores; ChannelSpec adds the clients'  *)
(* sockets to the run of one request; ControllerSpec adds the controller's *)
(* other handlers (updateVideo, getVideos, getStats, streamVideo);         *)
(* MetadataSpec reads the frame rate in getVideoMetadata; ShapeSpec feeds  *)
(* analyzeSensitivity one label at a time in both reply shapes.            *)
(*                                                                         *)
(* Units: classifier scores and confidences are integers in 1/10000        *)
(* (0.6 is 6000); a draw of Math.random() is an integer r in 0..999        *)
(* standing for r/1000.                                                    *)
(***************************************************************************)
EXTENDS Integers, Sequences, FiniteSets, TLC

\* ------------------------------------------------------------------ bounds
MaxJobs == 2          \* upload requests made in one behaviour
MaxExtracted == 2     \* frame files found on disk after extraction (<= NumFrames)
MaxClients == 1       \* sockets that connect in one behaviour

\* ------------------------------------------------------- program constants
NumFrames == 5             \* analyzeSensitivity asks extractFrames for 5 frames
FrameThreshold == 6000     \* nsfwScore > 0.6 flags a frame
AverageThreshold == 5000   \* averageNsfwScore < 0.5 is needed for safe
ConfidenceCap == 9900      \* Math.min(..., 0.99)
DefaultNormalScore == 9500 \* normalScore = 0.95 when nothing matched
MockStep == 10             \* progress += 10 per interval tick
MockSafeCut == 300         \* Math.random() > 0.3
MockConfidenceBase == 7000 \* Math.random() * 0.3 + 0.7

JobIds == 1..MaxJobs
Clients == 1..MaxClients

\* req.user as the authenticate middleware attaches it: the _id, the role and
\* the organization of an active user.
Users ==
    { [id |-> 1, role |-> "editor", organization |-> "orgA"],
      [id |-> 2, role |-> "editor", organization |-> "orgB"],
      [id |-> 3, role |-> "viewer", organization |-> "orgA"],
      [id |-> 4, role |-> "admin", organization |-> "orgB"] }

\* The user who makes upload request j, an editor as the upload route requires
\* (odd requests by user 1, even ones by user 2). uploadVideo stores this
\* user's _id and organization in the document as userId and organization.
Uploader(j) == CHOOSE u \in Users : u.id = (IF j % 2 = 1 THEN 1 ELSE 2)

\* The titles a request body can carry.
Titles == {"given", "edited"}

VARIABLES
    apiKey,     \* process.env.HUGGINGFACE_API_KEY: "absent", "placeholder" or "real"
    store,      \* the Video collection: job id -> document ("none" status: no document)
    pc,         \* position of the processVideo run of each job
    loc,        \* locals of the run: metadata, frames, loop counters, verdict, error
    events,     \* per job, the events passed to io.emit, in order
    calls,      \* per job, the external calls made (probe, extract, classify), in order
    replies,    \* per job, the classifier's reply to each submitted frame, in order
    frameFiles, \* per job, the frame files in uploads/frames/{videoId}/
    resp,       \* per upload request, the HTTP response uploadVideo sent
    sockets,    \* per client, its socket: "new", "connected" or "gone", and its rooms
    answer      \* the response to the last getVideos, getStats or streamVideo request

vars == <<apiKey, store, pc, loc, events, calls, replies, frameFiles, resp, sockets,
          answer>>

\* ----------------------------------------------------------------- helpers
Min(a, b) == IF a < b THEN a ELSE b
Max(a, b) == IF a > b THEN a ELSE b

\* Math.round(p / q) for p >= 0, q > 0.
RoundDiv(p, q) == (2 * p + q) \div (2 * q)

Range(s) == {s[k] : k \in 1..Len(s)}

\* ----------------------------------------------------------- Video schema
\* A document of the Video collection with the schema's defaults. Only the
\* fields the pipeline and the controller read or write are kept.
NoDoc ==
    [status |-> "none", processProgress |-> 0, sensitivityFlag |-> "pending",
     hasMetadata |-> FALSE, processedAt |-> FALSE, errorMessage |-> "none",
     title |-> "none"]

NewVideo ==
    [status |-> "pending", processProgress |-> 0, sensitivityFlag |-> "pending",
     hasMetadata |-> FALSE, processedAt |-> FALSE, errorMessage |-> "none",
     title |-> "given"]

\* A faulty variant of FindByIdAndUpdate: the filter is dropped and the
\* fields are set in every document (updateMany).
FindByIdAndUpdate_Every(st, id, fields) ==
    [k \in DOMAIN st |->
        IF st[k].status = "none" THEN st[k]
        ELSE [f \in DOMAIN st[k] |->
                 IF f \in DOMAIN fields THEN fields[f] ELSE st[k][f]]]

\* Model.findByIdAndUpdate(id, fields): sets the given fields of the document,
\* and changes nothing (returns null) when no document has the id.
FindByIdAndUpdate(st, id, fields) ==
    IF st[id].status = "none" THEN st
    ELSE [st EXCEPT ![id] =
            [f \in DOMAIN st[id] |->
                IF f \in DOMAIN fields THEN fields[f] ELSE st[id][f]]]

\* ------------------------------------------------------------ run locals
NoResult == [sensitivityFlag |-> "none", confidence |-> 0, detectedIssues |-> <<>>,
             mock |-> FALSE]

\* The frame rate of the metadata: a number in 1/100, or NaN / Infinity.
Fps(h) == [finite |-> TRUE, hundredths |-> h]
NotFinite == [finite |-> FALSE, hundredths |-> 0]

\* The r_frame_rate of the video stream as ffprobe reports it: no such field,
\* a "num/den" pair, or a text that is no arithmetic ("N/A").
Rate(kind, num, den) == [kind |-> kind, num |-> num, den |-> den]
NoRate == Rate("unread", 0, 0)

InitLoc ==
    [metadata |-> FALSE, rFrameRate |-> NoRate, fps |-> Fps(0),
     extracted |-> FALSE, frames |-> 0, i |-> 0,
     apiSuccessCount |-> 0, flaggedFrames |-> 0, totalNsfwScore |-> 0,
     detectedIssues |-> <<>>, progress |-> 0, result |-> NoResult,
     error |-> "none", thrown |-> "none", catchRejected |-> FALSE]

\* ------------------------------------------------- classifier normalisation
\* A label or key is the sequence of its characters, so that String.includes
\* is a real substring test.
Includes(s, t) ==
    \E k \in 0..(Len(s) - Len(t)) : SubSeq(s, k + 1, k + Len(t)) = t

LowerChar(c) ==
    CASE c = "N" -> "n" [] c = "S" -> "s" [] c = "F" -> "f" [] c = "W" -> "w"
      [] OTHER -> c

ToLowerCase(s) == [k \in 1..Len(s) |-> LowerChar(s[k])]

W_nsfw == <<"n","s","f","w">>
W_unsafe == <<"u","n","s","a","f","e">>
W_porn == <<"p","o","r","n">>
W_adult == <<"a","d","u","l","t">>
W_sexual == <<"s","e","x","u","a","l">>
W_explicit == <<"e","x","p","l","i","c","i","t">>
W_nude == <<"n","u","d","e">>
W_erotic == <<"e","r","o","t","i","c">>
W_normal == <<"n","o","r","m","a","l">>
W_sfw == <<"s","f","w">>
W_safe == <<"s","a","f","e">>
W_neutral == <<"n","e","u","t","r","a","l">>
W_clean == <<"c","l","e","a","n">>
W_appropriate == <<"a","p","p","r","o","p","r","i","a","t","e">>
W_bikini == <<"b","i","k","i","n","i">>
W_underwear == <<"u","n","d","e","r","w","e","a","r">>
W_swimsuit == <<"s","w","i","m","s","u","i","t">>

IncludesAny(label, words) == \E w \in words : Includes(label, w)

\* The keyword sets of the list branch (Array.isArray(result)).
ListUnsafeWords ==
    {W_nsfw, W_unsafe, W_porn, W_adult, W_sexual, W_explicit, W_nude, W_erotic}
ListSafeWords == {W_normal, W_sfw, W_safe, W_neutral, W_clean, W_appropriate}
ListAmbiguousWords == {W_bikini, W_underwear, W_swimsuit}

\* The keyword sets of the object branch (typeof result === 'object').
MapUnsafeWords == {W_nsfw, W_unsafe, W_sexual}
MapSafeWords == {W_safe, W_normal}

\* An element of a list reply: usable is FALSE for an element from which
\* (item.label || '').toLowerCase() throws (null, or a label that is no string).
Item(label, score) == [usable |-> TRUE, label |-> label, score |-> score]
BadItem == [usable |-> FALSE, label |-> <<>>, score |-> 0]

\* An entry of an object reply: numeric is FALSE when typeof value !== 'number'.
Entry(key, value) == [key |-> key, value |-> value, numeric |-> TRUE]

Scores(threw, nsfw, normal) ==
    [threw |-> threw, nsfwScore |-> nsfw, normalScore |-> normal]

\* for (const item of result) { ... } over a list reply.
RECURSIVE NormaliseList(_, _, _)
NormaliseList(items, nsfw, normal) ==
    IF items = <<>> THEN Scores(FALSE, nsfw, normal)
    ELSE LET item == Head(items) IN
         IF ~item.usable THEN Scores(TRUE, nsfw, normal)
         ELSE LET label == ToLowerCase(item.label) IN
              IF IncludesAny(label, ListUnsafeWords)
                THEN NormaliseList(Tail(items), Max(nsfw, item.score), normal)
              ELSE IF IncludesAny(label, ListSafeWords)
                THEN NormaliseList(Tail(items), nsfw, Max(normal, item.score))
              ELSE IF IncludesAny(label, ListAmbiguousWords)
                THEN NormaliseList(Tail(items), Max(nsfw, item.score \div 2), normal)
              ELSE NormaliseList(Tail(items), nsfw, normal)

\* for (const [key, value] of Object.entries(result)) { ... } over an object reply.
RECURSIVE NormaliseMap(_, _, _)
NormaliseMap(entries, nsfw, normal) ==
    IF entries = <<>> THEN Scores(FALSE, nsfw, normal)
    ELSE LET e == Head(entries)
             label == ToLowerCase(e.key)
             v == IF e.numeric THEN e.value ELSE 0 IN
         IF IncludesAny(label, MapUnsafeWords)
           THEN NormaliseMap(Tail(entries), Max(nsfw, v), normal)
         ELSE IF IncludesAny(label, MapSafeWords)
           THEN NormaliseMap(Tail(entries), nsfw, Max(normal, v))
         ELSE NormaliseMap(Tail(entries), nsfw, normal)

\* The data of a reply turned into (nsfwScore, normalScore); threw is TRUE when
\* the code raises while doing so.
Normalise(reply) ==
    LET raw == CASE reply.kind = "list" -> NormaliseList(reply.items, 0, 0)
                 [] reply.kind = "map" -> NormaliseMap(reply.items, 0, 0)
                 [] OTHER -> Scores(FALSE, 0, 0) IN
    IF ~raw.threw /\ raw.nsfwScore = 0 /\ raw.normalScore = 0
      THEN Scores(FALSE, 0, DefaultNormalScore)
      ELSE raw

\* The classifier's replies the pipeline is run against: the call failing, a
\* list reply that cannot be normalised, and list replies saying nsfw / normal.
ReplyError == [kind |-> "error", items |-> <<>>]
ReplyMalformed == [kind |-> "list", items |-> <<Item(W_nsfw, 9000), BadItem>>]
ReplyNsfw == [kind |-> "list", items |-> <<Item(W_normal, 1000), Item(W_nsfw, 9000)>>]
ReplyNormal == [kind |-> "list", items |-> <<Item(W_normal, 9800), Item(W_nsfw, 200)>>]
ClassifierReplies == {ReplyError, ReplyMalformed, ReplyNsfw, ReplyNormal}

\* ---------------------------------------------------------- decision policy
\* A faulty variant of IsSafe: an average of exactly 0.5 still counts as safe.
IsSafe_AtMostHalf(flaggedFrames, totalNsfwScore, apiSuccessCount) ==
    /\ flaggedFrames = 0
    /\ totalNsfwScore <= AverageThreshold * apiSuccessCount

\* isSafe = flaggedFrames === 0 && averageNsfwScore < 0.5, the average being
\* totalNsfwScore / apiSuccessCount.
IsSafe(flaggedFrames, totalNsfwScore, apiSuccessCount) ==
    /\ flaggedFrames = 0
    /\ totalNsfwScore < AverageThreshold * apiSuccessCount

\* A faulty variant of Confidence: the cap at 0.99 is missing.
Confidence_Uncapped(safe, totalNsfwScore, apiSuccessCount) ==
    LET num == IF safe THEN 10000 * apiSuccessCount - totalNsfwScore
                       ELSE totalNsfwScore IN
    RoundDiv(num * 11, 100 * apiSuccessCount) * 10

\* Math.min(x * 1.1, 0.99).toFixed(3) with x = (1 - average) when safe and
\* x = average when flagged, in 1/10000.
Confidence(safe, totalNsfwScore, apiSuccessCount) ==
    LET num == IF safe THEN 10000 * apiSuccessCount - totalNsfwScore
                       ELSE totalNsfwScore
        scaled == RoundDiv(num * 11, 100 * apiSuccessCount) * 10 IN
    Min(scaled, ConfidenceCap)

RealVerdict(flaggedFrames, totalNsfwScore, apiSuccessCount, detectedIssues) ==
    LET safe == IsSafe(flaggedFrames, totalNsfwScore, apiSuccessCount) IN
    [sensitivityFlag |-> IF safe THEN "safe" ELSE "flagged",
     confidence |-> Confidence(safe, totalNsfwScore, apiSuccessCount),
     detectedIssues |-> IF safe THEN <<>> ELSE detectedIssues,
     mock |-> FALSE]

\* A faulty variant of MockVerdict: confidence drawn from [0.3, 1.0).
MockVerdict_Wide(r1, r2) ==
    LET safe == r1 > MockSafeCut IN
    [sensitivityFlag |-> IF safe THEN "safe" ELSE "flagged",
     confidence |-> 3000 + 7 * r2,
     detectedIssues |-> IF safe THEN <<>> ELSE <<0>>,
     mock |-> TRUE]

\* The verdict analyzeSensitivityMock resolves with, from two draws of
\* Math.random(). A mock issue is written as frame 0.
MockVerdict(r1, r2) ==
    LET safe == r1 > MockSafeCut IN
    [sensitivityFlag |-> IF safe THEN "safe" ELSE "flagged",
     confidence |-> MockConfidenceBase + 3 * r2,
     detectedIssues |-> IF safe THEN <<>> ELSE <<0>>,
     mock |-> TRUE]

\* The values of Math.random() tried: for the flag both ends of [0, 1) and
\* both sides of 0.3, for the confidence both ends of [0, 1).
FlagDraws == {0, 300, 301, 999}
ConfidenceDraws == {0, 999}

\* ------------------------------------------------------------------ events
\* The events of the pipeline; to is filled in by io.emit.
ProgressEvent(p) ==
    [type |-> "progress", progress |-> p, sensitivityFlag |-> "none",
     confidence |-> 0, error |-> "none", to |-> {}]

CompleteEvent(result) ==
    [type |-> "complete", progress |-> 0,
     sensitivityFlag |-> result.sensitivityFlag,
     confidence |-> result.confidence, error |-> "none", to |-> {}]

ErrorEvent(message) ==
    [type |-> "error", progress |-> 0, sensitivityFlag |-> "none",
     confidence |-> 0, error |-> message, to |-> {}]

\* The sockets connected to the server.
Connected == {c \in Clients : sockets[c].state = "connected"}

\* io.emit(name, payload) sends to every connected socket, whatever its rooms.
Broadcast(e) == [e EXCEPT !.to = Connected]

\* this.io.emit(name, payload): the event, with the sockets it was sent to, is
\* appended to the job's sequence.
Emit(ev, j, e) == [ev EXCEPT ![j] = Append(@, Broadcast(e))]

Call(cs, j, op, frame) == [cs EXCEPT ![j] = Append(@, [op |-> op, frame |-> frame])]

\* The body of a controller response to a read request; no request yet.
NoStats ==
    [totalVideos |-> 0, pending |-> 0, processing |-> 0, completed |-> 0,
     failed |-> 0, safe |-> 0, flagged |-> 0]

NoReply ==
    [op |-> "none", user |-> 0, job |-> 0, code |-> 0, content |-> FALSE,
     status |-> "none", filter |-> "none", videos |-> {}, stats |-> NoStats,
     organization |-> "none"]

\* ------------------------------------------------------------------- Init
Init ==
    /\ apiKey \in {"absent", "placeholder", "real"}
    /\ store = [j \in JobIds |-> NoDoc]
    /\ pc = [j \in JobIds |-> "idle"]
    /\ loc = [j \in JobIds |-> InitLoc]
    /\ events = [j \in JobIds |-> <<>>]
    /\ calls = [j \in JobIds |-> <<>>]
    /\ replies = [j \in JobIds |-> <<>>]
    /\ frameFiles = [j \in JobIds |-> {}]
    /\ resp = [j \in JobIds |-> [code |-> 0, status |-> "none"]]
    /\ sockets = [c \in Clients |-> [state |-> "new", rooms |-> {}]]
    /\ answer = NoReply

\* ------------------------------------------------------------ uploadVideo
\* A faulty variant of UploadVideo: processVideo is queued for a request whose
\* save failed.
UploadVideo_RunsRefused(j) ==
    /\ pc[j] = "idle"
    /\ \A k \in JobIds : k < j => pc[k] # "idle"
    /\ \E hasFile \in BOOLEAN, hasTitle \in BOOLEAN, saveOk \in BOOLEAN :
         IF ~hasFile \/ ~hasTitle
           THEN /\ resp' = [resp EXCEPT ![j] = [code |-> 400, status |-> "none"]]
                /\ pc' = [pc EXCEPT ![j] = "refused"]
                /\ UNCHANGED store
         ELSE IF ~saveOk
           THEN /\ resp' = [resp EXCEPT ![j] = [code |-> 500, status |-> "none"]]
                /\ pc' = [pc EXCEPT ![j] = "scheduled"]
                /\ UNCHANGED store
         ELSE /\ store' = [store EXCEPT ![j] = NewVideo]
              /\ pc' = [pc EXCEPT ![j] = "scheduled"]
              /\ resp' = [resp EXCEPT ![j] = [code |-> 201, status |-> NewVideo.status]]
    /\ UNCHANGED <<apiKey, sockets, answer, loc, events, calls, replies, frameFiles>>

\* A faulty variant of UploadVideo: the response is sent after the run's first
\* store update and reports its status.
UploadVideo_ReportsProcessing(j) ==
    /\ pc[j] = "idle"
    /\ \A k \in JobIds : k < j => pc[k] # "idle"
    /\ \E hasFile \in BOOLEAN, hasTitle \in BOOLEAN, saveOk \in BOOLEAN :
         IF ~hasFile \/ ~hasTitle
           THEN /\ resp' = [resp EXCEPT ![j] = [code |-> 400, status |-> "none"]]
                /\ pc' = [pc EXCEPT ![j] = "refused"]
                /\ UNCHANGED store
         ELSE IF ~saveOk
           THEN /\ resp' = [resp EXCEPT ![j] = [code |-> 500, status |-> "none"]]
                /\ pc' = [pc EXCEPT ![j] = "refused"]
                /\ UNCHANGED store
         ELSE /\ store' = [store EXCEPT ![j] =
                              [NewVideo EXCEPT !.status = "processing"]]
              /\ pc' = [pc EXCEPT ![j] = "emitStart"]
              /\ resp' = [resp EXCEPT ![j] =
                             [code |-> 201, status |-> "processing"]]
    /\ UNCHANGED <<apiKey, sockets, answer, loc, events, calls, replies, frameFiles>>

\* VideoController.uploadVideo for request j: with or without a file and a
\* title, and video.save() succeeding or throwing. A refused request (400,
\* 500) stores no document and queues nothing; an accepted one stores the
\* pending document and queues processVideo with setImmediate before the 201
\* response, which reports the status of the in-memory document.
UploadVideo(j) ==
    /\ pc[j] = "idle"
    /\ \A k \in JobIds : k < j => pc[k] # "idle"
    /\ \E hasFile \in BOOLEAN, hasTitle \in BOOLEAN, saveOk \in BOOLEAN :
         IF ~hasFile \/ ~hasTitle
           THEN /\ resp' = [resp EXCEPT ![j] = [code |-> 400, status |-> "none"]]
                /\ pc' = [pc EXCEPT ![j] = "refused"]
                /\ UNCHANGED store
         ELSE IF ~saveOk
           THEN /\ resp' = [resp EXCEPT ![j] = [code |-> 500, status |-> "none"]]
                /\ pc' = [pc EXCEPT ![j] = "refused"]
                /\ UNCHANGED store
         ELSE /\ store' = [store EXCEPT ![j] = NewVideo]
              /\ pc' = [pc EXCEPT ![j] = "scheduled"]
              /\ resp' = [resp EXCEPT ![j] = [code |-> 201, status |-> NewVideo.status]]
    /\ UNCHANGED <<apiKey, sockets, answer, loc, events, calls, replies, frameFiles>>

\* ------------------------------------------------------------ deleteVideo
\* VideoController.deleteVideo by a user allowed to delete the video: the
\* document is removed whatever its status is.
DeleteVideo(j) ==
    /\ store[j].status # "none"
    /\ store' = [store EXCEPT ![j] = NoDoc]
    /\ UNCHANGED <<apiKey, sockets, answer, pc, loc, events, calls, replies, frameFiles, resp>>

\* ----------------------------------------------------------- processVideo
\* The fields of the three store updates of processVideo.
\* Faulty variants of the update fields: a first update that completes the
\* job, a completion without the flag, a failure without the message.
ProcessingFields_Completed == [status |-> "completed", processProgress |-> 0]
ProcessingFields == [status |-> "processing", processProgress |-> 0]

CompletedFields_NoFlag(result) ==
    [status |-> "completed", processProgress |-> 100,
     hasMetadata |-> TRUE, processedAt |-> TRUE]
CompletedFields(result) ==
    [status |-> "completed", processProgress |-> 100,
     sensitivityFlag |-> result.sensitivityFlag,
     hasMetadata |-> TRUE, processedAt |-> TRUE]

FailedFields_NoMessage(message) == [status |-> "failed"]
\* Two more: the message without the status, and a failure that persists a flag.
FailedFields_NoStatus(message) == [errorMessage |-> message]
FailedFields_Flagged(message) ==
    [status |-> "failed", errorMessage |-> message, sensitivityFlag |-> "flagged"]
FailedFields(message) == [status |-> "failed", errorMessage |-> message]

\* Math.round(30 + ((i + 1) / frames.length) * 60) for the 0-based index i.
FrameProgress(i, n) == RoundDiv(30 * n + 60 * (i + 1), n)

\* await videoModel.findByIdAndUpdate(videoId, {status: 'processing', ...}):
\* the store applies the update, or the call rejects and the catch block runs.
SetProcessing(j) ==
    /\ pc[j] = "scheduled"
    /\ \/ /\ store' = FindByIdAndUpdate(store, j, ProcessingFields)
          /\ pc' = [pc EXCEPT ![j] = "emitStart"]
          /\ UNCHANGED loc
       \/ /\ pc' = [pc EXCEPT ![j] = "catch"]
          /\ loc' = [loc EXCEPT ![j].error = "store"]
          /\ UNCHANGED store
    /\ UNCHANGED <<apiKey, sockets, answer, events, calls, replies, frameFiles, resp>>

\* A faulty variant of EmitStart: the extraction is started with the probe.
EmitStart_ExtractsEarly(j) ==
    /\ pc[j] = "emitStart"
    /\ events' = Emit(Emit(events, j, ProgressEvent(0)), j, ProgressEvent(20))
    /\ calls' = Call(Call(calls, j, "probe", 0), j, "extract", 0)
    /\ pc' = [pc EXCEPT ![j] = "probe"]
    /\ UNCHANGED <<apiKey, sockets, answer, store, loc, replies, frameFiles, resp>>

\* The two progress events (0 and 20) and the call of getVideoMetadata.
EmitStart(j) ==
    /\ pc[j] = "emitStart"
    /\ events' = Emit(Emit(events, j, ProgressEvent(0)), j, ProgressEvent(20))
    /\ calls' = Call(calls, j, "probe", 0)
    /\ pc' = [pc EXCEPT ![j] = "probe"]
    /\ UNCHANGED <<apiKey, sockets, answer, store, loc, replies, frameFiles, resp>>

\* The start of analyzeSensitivityMock: progress = 0 and the interval is set.
StartMock(l) == [l EXCEPT !.progress = 0]

\* getVideoMetadata settles: ffprobe reports an error, never calls back (the
\* call carries no timeout), or returns the metadata. With the metadata,
\* analyzeSensitivity starts: the mock when !this.apiKey, else extractFrames,
\* which emits progress 25 and starts ffmpeg.
ProbeReturn(j) ==
    /\ pc[j] = "probe"
    /\ \/ /\ pc' = [pc EXCEPT ![j] = "catch"]
          /\ loc' = [loc EXCEPT ![j].error = "probe"]
          /\ UNCHANGED <<events, calls>>
       \/ /\ pc' = [pc EXCEPT ![j] = "hung"]
          /\ UNCHANGED <<loc, events, calls>>
       \/ /\ apiKey = "absent"
          /\ pc' = [pc EXCEPT ![j] = "mock"]
          /\ loc' = [loc EXCEPT ![j] = StartMock([@ EXCEPT !.metadata = TRUE])]
          /\ UNCHANGED <<events, calls>>
       \/ /\ apiKey # "absent"
          /\ pc' = [pc EXCEPT ![j] = "extract"]
          /\ loc' = [loc EXCEPT ![j].metadata = TRUE]
          /\ events' = Emit(events, j, ProgressEvent(25))
          /\ calls' = Call(calls, j, "extract", 0)
    /\ UNCHANGED <<apiKey, sockets, answer, store, replies, frameFiles, resp>>

\* A faulty variant of CleanupFrames: fs.unlinkSync runs for every frame.
CleanupFrames_Deletes(files) == {}

\* cleanupFrames(frames): the deletion is commented out; the files stay.
CleanupFrames(files) == files

\* A faulty variant of ExtractReturn: an ffmpeg error is not caught by
\* analyzeSensitivity and fails the job.
ExtractReturn_NoFallback(j) ==
    /\ pc[j] = "extract"
    /\ \/ /\ pc' = [pc EXCEPT ![j] = "catch"]
          /\ loc' = [loc EXCEPT ![j].error = "extract"]
          /\ UNCHANGED <<events, calls, frameFiles>>
       \/ /\ pc' = [pc EXCEPT ![j] = "hung"]
          /\ UNCHANGED <<loc, events, calls, frameFiles>>
       \/ /\ loc' = [loc EXCEPT ![j] = StartMock([@ EXCEPT !.extracted = TRUE])]
          /\ frameFiles' = [frameFiles EXCEPT ![j] = CleanupFrames(@)]
          /\ pc' = [pc EXCEPT ![j] = "mock"]
          /\ UNCHANGED <<events, calls>>
       \/ \E n \in 1..Min(MaxExtracted, NumFrames) :
            /\ frameFiles' = [frameFiles EXCEPT ![j] = 1..n]
            /\ loc' = [loc EXCEPT ![j].frames = n, ![j].extracted = TRUE]
            /\ events' = Emit(events, j, ProgressEvent(FrameProgress(0, n)))
            /\ calls' = Call(calls, j, "classify", 1)
            /\ pc' = [pc EXCEPT ![j] = "classify"]
    /\ UNCHANGED <<apiKey, sockets, answer, store, replies, resp>>

\* extractFrames settles: ffmpeg reports an error (caught by analyzeSensitivity,
\* which falls back to the mock), never reports (no timeout), or ends with n
\* frame files on disk. With no frame the loop is skipped and apiSuccessCount
\* is 0; otherwise the first frame's progress is emitted and it is submitted.
ExtractReturn(j) ==
    /\ pc[j] = "extract"
    /\ \/ /\ pc' = [pc EXCEPT ![j] = "mock"]
          /\ loc' = [loc EXCEPT ![j] = StartMock(@)]
          /\ UNCHANGED <<events, calls, frameFiles>>
       \/ /\ pc' = [pc EXCEPT ![j] = "hung"]
          /\ UNCHANGED <<loc, events, calls, frameFiles>>
       \/ /\ loc' = [loc EXCEPT ![j] = StartMock([@ EXCEPT !.extracted = TRUE])]
          /\ frameFiles' = [frameFiles EXCEPT ![j] = CleanupFrames(@)]
          /\ pc' = [pc EXCEPT ![j] = "mock"]
          /\ UNCHANGED <<events, calls>>
       \/ \E n \in 1..Min(MaxExtracted, NumFrames) :
            /\ frameFiles' = [frameFiles EXCEPT ![j] = 1..n]
            /\ loc' = [loc EXCEPT ![j].frames = n, ![j].extracted = TRUE]
            /\ events' = Emit(events, j, ProgressEvent(FrameProgress(0, n)))
            /\ calls' = Call(calls, j, "classify", 1)
            /\ pc' = [pc EXCEPT ![j] = "classify"]
    /\ UNCHANGED <<apiKey, sockets, answer, store, replies, resp>>

\* A faulty variant of AfterReply: a failed call flags its frame.
AfterReply_FailureFlags(l, r) ==
    IF r.kind = "error"
      THEN [l EXCEPT !.flaggedFrames = @ + 1,
                     !.detectedIssues = Append(@, l.i + 1)]
    ELSE LET counted == [l EXCEPT !.apiSuccessCount = @ + 1]
             s == Normalise(r) IN
         IF s.threw THEN counted
         ELSE LET summed == [counted EXCEPT !.totalNsfwScore = @ + s.nsfwScore] IN
              IF s.nsfwScore > FrameThreshold
                THEN [summed EXCEPT !.flaggedFrames = @ + 1,
                                    !.detectedIssues = Append(@, l.i + 1)]
                ELSE summed

\* The body of the loop's try block for frame index l.i and the reply r:
\* apiSuccessCount++ right after the call returned, then the normalisation,
\* totalNsfwScore += nsfwScore and the frame flag; the inner catch swallows
\* whatever is thrown.
\* Another: a frame is flagged from 0.6 on (>= in place of >).
AfterReply_FlagsAtThreshold(l, r) ==
    IF r.kind = "error" THEN l
    ELSE LET counted == [l EXCEPT !.apiSuccessCount = @ + 1]
             s == Normalise(r) IN
         IF s.threw THEN counted
         ELSE LET summed == [counted EXCEPT !.totalNsfwScore = @ + s.nsfwScore] IN
              IF s.nsfwScore >= FrameThreshold
                THEN [summed EXCEPT !.flaggedFrames = @ + 1,
                                    !.detectedIssues = Append(@, l.i + 1)]
                ELSE summed

AfterReply(l, r) ==
    IF r.kind = "error" THEN l
    ELSE LET counted == [l EXCEPT !.apiSuccessCount = @ + 1]
             s == Normalise(r) IN
         IF s.threw THEN counted
         ELSE LET summed == [counted EXCEPT !.totalNsfwScore = @ + s.nsfwScore] IN
              IF s.nsfwScore > FrameThreshold
                THEN [summed EXCEPT !.flaggedFrames = @ + 1,
                                    !.detectedIssues = Append(@, l.i + 1)]
                ELSE summed

\* callHuggingFaceAPI settles (axios has a 30 s timeout, so it always does),
\* the frame is handled and the 500 ms delay starts.
ClassifyReturn(j) ==
    /\ pc[j] = "classify"
    /\ \E r \in ClassifierReplies :
         /\ replies' = [replies EXCEPT ![j] = Append(@, r)]
         /\ loc' = [loc EXCEPT ![j] = AfterReply(@, r)]
    /\ pc' = [pc EXCEPT ![j] = "delay"]
    /\ UNCHANGED <<apiKey, sockets, answer, store, events, calls, frameFiles, resp>>

\* The 500 ms delay ends: the next frame is announced and submitted, or the
\* loop is over: cleanupFrames, then the mock when apiSuccessCount === 0, else
\* the verdict, processVideo's progress 100 and its 'completed' update.
DelayDone(j) ==
    /\ pc[j] = "delay"
    /\ LET l == loc[j]
           next == l.i + 1 IN
       \/ /\ next < l.frames
          /\ loc' = [loc EXCEPT ![j].i = next]
          /\ events' = Emit(events, j, ProgressEvent(FrameProgress(next, l.frames)))
          /\ calls' = Call(calls, j, "classify", next + 1)
          /\ pc' = [pc EXCEPT ![j] = "classify"]
          /\ UNCHANGED frameFiles
       \/ /\ next >= l.frames
          /\ l.apiSuccessCount = 0
          /\ frameFiles' = [frameFiles EXCEPT ![j] = CleanupFrames(@)]
          /\ loc' = [loc EXCEPT ![j] = StartMock([@ EXCEPT !.i = next])]
          /\ pc' = [pc EXCEPT ![j] = "mock"]
          /\ UNCHANGED <<events, calls>>
       \/ /\ next >= l.frames
          /\ l.apiSuccessCount # 0
          /\ frameFiles' = [frameFiles EXCEPT ![j] = CleanupFrames(@)]
          /\ loc' = [loc EXCEPT ![j].i = next,
                                ![j].result = RealVerdict(l.flaggedFrames,
                                    l.totalNsfwScore, l.apiSuccessCount,
                                    l.detectedIssues)]
          /\ events' = Emit(events, j, ProgressEvent(100))
          /\ pc' = [pc EXCEPT ![j] = "completing"]
          /\ UNCHANGED calls
    /\ UNCHANGED <<apiKey, sockets, answer, store, replies, resp>>

\* One tick of analyzeSensitivityMock's interval: progress += 10 and the event;
\* at 100 the interval is cleared and the promise resolves with the random
\* verdict, after which processVideo emits progress 100 and calls its
\* 'completed' update.
MockTick(j) ==
    /\ pc[j] = "mock"
    /\ LET p == loc[j].progress + MockStep IN
       \/ /\ p < 100
          /\ loc' = [loc EXCEPT ![j].progress = p]
          /\ events' = Emit(events, j, ProgressEvent(p))
          /\ UNCHANGED pc
       \/ /\ p >= 100
          /\ \E r1 \in FlagDraws, r2 \in ConfidenceDraws :
               loc' = [loc EXCEPT ![j].progress = p,
                                  ![j].result = MockVerdict(r1, r2)]
          /\ events' = Emit(Emit(events, j, ProgressEvent(p)), j, ProgressEvent(100))
          /\ pc' = [pc EXCEPT ![j] = "completing"]
    /\ UNCHANGED <<apiKey, sockets, answer, store, calls, replies, frameFiles, resp>>

\* await videoModel.findByIdAndUpdate(videoId, {status: 'completed', ...}):
\* applied by the store, or rejected, which enters the catch block.
SetCompleted(j) ==
    /\ pc[j] = "completing"
    /\ \/ /\ store' = FindByIdAndUpdate(store, j, CompletedFields(loc[j].result))
          /\ pc' = [pc EXCEPT ![j] = "emitComplete"]
          /\ UNCHANGED loc
       \/ /\ pc' = [pc EXCEPT ![j] = "catch"]
          /\ loc' = [loc EXCEPT ![j].error = "store"]
          /\ UNCHANGED store
    /\ UNCHANGED <<apiKey, sockets, answer, events, calls, replies, frameFiles, resp>>

\* The completion event; processVideo's promise resolves.
EmitComplete(j) ==
    /\ pc[j] = "emitComplete"
    /\ events' = Emit(events, j, CompleteEvent(loc[j].result))
    /\ pc' = [pc EXCEPT ![j] = "resolved"]
    /\ UNCHANGED <<apiKey, sockets, answer, store, loc, calls, replies, frameFiles, resp>>

\* The catch block's await videoModel.findByIdAndUpdate(videoId, {status:
\* 'failed', ...}): applied by the store, or rejected, and then the rejection
\* leaves processVideo before the error event and the rethrow (catchRejected
\* records it).
SetFailed(j) ==
    /\ pc[j] = "catch"
    /\ \/ /\ store' = FindByIdAndUpdate(store, j, FailedFields(loc[j].error))
          /\ pc' = [pc EXCEPT ![j] = "emitError"]
          /\ UNCHANGED loc
       \/ /\ pc' = [pc EXCEPT ![j] = "rejected"]
          /\ loc' = [loc EXCEPT ![j].thrown = "store", ![j].catchRejected = TRUE]
          /\ UNCHANGED store
    /\ UNCHANGED <<apiKey, sockets, answer, events, calls, replies, frameFiles, resp>>

\* A faulty variant of EmitError: the error is rethrown without the event.
EmitError_Silent(j) ==
    /\ pc[j] = "emitError"
    /\ loc' = [loc EXCEPT ![j].thrown = loc[j].error]
    /\ pc' = [pc EXCEPT ![j] = "rejected"]
    /\ UNCHANGED <<apiKey, sockets, answer, store, events, calls, replies, frameFiles, resp>>

\* The failure event and throw error: processVideo's promise rejects with the
\* error that entered the catch block; the caller logs it.
EmitError(j) ==
    /\ pc[j] = "emitError"
    /\ events' = Emit(events, j, ErrorEvent(loc[j].error))
    /\ loc' = [loc EXCEPT ![j].thrown = loc[j].error]
    /\ pc' = [pc EXCEPT ![j] = "rejected"]
    /\ UNCHANGED <<apiKey, sockets, answer, store, calls, replies, frameFiles, resp>>

\* -------------------------------------------------------------------- Next
Next ==
    \E j \in {1} :
        \/ UploadVideo(j)
        \/ DeleteVideo(j)
        \/ SetProcessing(j)
        \/ EmitStart(j)
        \/ ProbeReturn(j)
        \/ ExtractReturn(j)
        \/ ClassifyReturn(j)
        \/ DelayDone(j)
        \/ MockTick(j)
        \/ SetCompleted(j)
        \/ EmitComplete(j)
        \/ SetFailed(j)
        \/ EmitError(j)

Spec == Init /\ [][Next]_vars

\* The server with all its upload requests: the runs of different requests
\* interleave at every await.
ConcurrentNext ==
    \E j \in JobIds :
        \/ UploadVideo(j)
        \/ DeleteVideo(j)
        \/ SetProcessing(j)
        \/ EmitStart(j)
        \/ ProbeReturn(j)
        \/ ExtractReturn(j)
        \/ ClassifyReturn(j)
        \/ DelayDone(j)
        \/ MockTick(j)
        \/ SetCompleted(j)
        \/ EmitComplete(j)
        \/ SetFailed(j)
        \/ EmitError(j)

ConcurrentSpec == Init /\ [][ConcurrentNext]_vars

\* The steps of the processVideo run of job j.
RunStep(j) ==
    \/ SetProcessing(j)
    \/ EmitStart(j)
    \/ ProbeReturn(j)
    \/ ExtractReturn(j)
    \/ ClassifyReturn(j)
    \/ DelayDone(j)
    \/ MockTick(j)
    \/ SetCompleted(j)
    \/ EmitComplete(j)
    \/ SetFailed(j)
    \/ EmitError(j)

\* ------------------------------------------------ analyzeSensitivity at once
\* The decision policy is a function of the replies to the frames of one run.
\* AnalysisSpec runs the pipeline of the first upload request with the whole
\* of analyzeSensitivity's extraction and loop as one step, over replies whose
\* nsfw scores lie on both sides of the two thresholds.
AnalysisScores == {0, 1000, 3333, 4999, 5000, 6000, 6001, 8000, 10000}

\* A list reply [{label: 'nsfw', score: s}, {label: 'normal', score: 1 - s}].
ReplyScore(s) ==
    [kind |-> "list", items |-> <<Item(W_nsfw, s), Item(W_normal, 10000 - s)>>]

AnalysisReplies ==
    {ReplyError, ReplyMalformed} \cup {ReplyScore(s) : s \in AnalysisScores}

\* The loop of analyzeSensitivity over the replies rs, from frame index k - 1.
RECURSIVE RunLoop(_, _, _)
RunLoop(l, rs, k) ==
    IF k > Len(rs) THEN l
    ELSE RunLoop(AfterReply([l EXCEPT !.i = k - 1], rs[k]), rs, k + 1)

\* extractFrames finds n frames and the loop handles the replies rs, drawn
\* from Rs: the progress event and the classifier call of each frame,
\* cleanupFrames, then the mock when apiSuccessCount === 0, else the verdict
\* and progress 100.
AnalyzeOver(j, Rs) ==
    /\ pc[j] = "extract"
    /\ \E n \in 1..Min(MaxExtracted, NumFrames) :
         \E rs \in [1..n -> Rs] :
           LET l0 == [loc[j] EXCEPT !.frames = n, !.extracted = TRUE]
               l == [RunLoop(l0, rs, 1) EXCEPT !.i = n]
               announced == [k \in 1..n |->
                                Broadcast(ProgressEvent(FrameProgress(k - 1, n)))]
               submitted == [k \in 1..n |-> [op |-> "classify", frame |-> k]] IN
           /\ frameFiles' = [frameFiles EXCEPT ![j] = CleanupFrames(1..n)]
           /\ replies' = [replies EXCEPT ![j] = rs]
           /\ calls' = [calls EXCEPT ![j] = @ \o submitted]
           /\ IF l.apiSuccessCount = 0
                THEN /\ loc' = [loc EXCEPT ![j] = StartMock(l)]
                     /\ events' = [events EXCEPT ![j] = @ \o announced]
                     /\ pc' = [pc EXCEPT ![j] = "mock"]
                ELSE /\ loc' = [loc EXCEPT ![j] =
                                  [l EXCEPT !.result = RealVerdict(l.flaggedFrames,
                                       l.totalNsfwScore, l.apiSuccessCount,
                                       l.detectedIssues)]]
                     /\ events' = [events EXCEPT ![j] =
                                     (@ \o announced) \o <<Broadcast(ProgressEvent(100))>>]
                     /\ pc' = [pc EXCEPT ![j] = "completing"]
    /\ UNCHANGED <<apiKey, sockets, answer, store, resp>>

Analyze(j) == AnalyzeOver(j, AnalysisReplies)

AnalysisNext ==
    \E j \in {1} :
        \/ UploadVideo(j)
        \/ SetProcessing(j)
        \/ EmitStart(j)
        \/ ProbeReturn(j)
        \/ Analyze(j)
        \/ MockTick(j)
        \/ SetCompleted(j)
        \/ EmitComplete(j)
        \/ SetFailed(j)
        \/ EmitError(j)

AnalysisSpec == Init /\ [][AnalysisNext]_vars

\* ------------------------------------------------ the frame rate of a probe
FrameRates ==
    {Rate("absent", 0, 0), Rate("pair", 30000, 1001), Rate("pair", 25, 1),
     Rate("pair", 0, 0), Rate("text", 0, 0)}

\* eval(videoStream?.r_frame_rate || '0'): '0' for an absent field, the
\* quotient of a pair (NaN or Infinity when the denominator is 0), and a
\* ReferenceError for a text that names no variable.
EvalFrameRate(f) ==
    CASE f.kind = "absent" -> [threw |-> FALSE, fps |-> Fps(0)]
      [] f.kind = "pair" /\ f.den # 0 ->
            [threw |-> FALSE, fps |-> Fps((100 * f.num) \div f.den)]
      [] f.kind = "pair" /\ f.den = 0 -> [threw |-> FALSE, fps |-> NotFinite]
      [] OTHER -> [threw |-> TRUE, fps |-> Fps(0)]

\* getVideoMetadata settles, with the frame rate ffprobe reports: as
\* ProbeReturn, but the callback evaluates r_frame_rate before it resolves.
\* When eval throws, the exception leaves the ffprobe callback: the promise
\* never settles and, no uncaughtException handler being installed, the
\* process ends.
ProbeStreams(j) ==
    /\ pc[j] = "probe"
    /\ \/ /\ pc' = [pc EXCEPT ![j] = "catch"]
          /\ loc' = [loc EXCEPT ![j].error = "probe"]
          /\ UNCHANGED <<events, calls>>
       \/ /\ pc' = [pc EXCEPT ![j] = "hung"]
          /\ UNCHANGED <<loc, events, calls>>
       \/ \E f \in FrameRates :
            LET e == EvalFrameRate(f)
                l == [loc[j] EXCEPT !.rFrameRate = f] IN
            IF e.threw
              THEN /\ pc' = [pc EXCEPT ![j] = "crashed"]
                   /\ loc' = [loc EXCEPT ![j] = l]
                   /\ UNCHANGED <<events, calls>>
            ELSE IF apiKey = "absent"
              THEN /\ pc' = [pc EXCEPT ![j] = "mock"]
                   /\ loc' = [loc EXCEPT ![j] =
                                 StartMock([l EXCEPT !.metadata = TRUE, !.fps = e.fps])]
                   /\ UNCHANGED <<events, calls>>
            ELSE /\ pc' = [pc EXCEPT ![j] = "extract"]
                 /\ loc' = [loc EXCEPT ![j] = [l EXCEPT !.metadata = TRUE, !.fps = e.fps]]
                 /\ events' = Emit(events, j, ProgressEvent(25))
                 /\ calls' = Call(calls, j, "extract", 0)
    /\ UNCHANGED <<apiKey, sockets, answer, store, replies, frameFiles, resp>>

\* The run of the first upload request with the frame rate read.
MetadataNext ==
    \E j \in {1} :
        \/ UploadVideo(j)
        \/ SetProcessing(j)
        \/ EmitStart(j)
        \/ ProbeStreams(j)
        \/ ExtractReturn(j)
        \/ ClassifyReturn(j)
        \/ DelayDone(j)
        \/ MockTick(j)
        \/ SetCompleted(j)
        \/ EmitComplete(j)
        \/ SetFailed(j)
        \/ EmitError(j)

MetadataSpec == Init /\ [][MetadataNext]_vars

\* --------------------------------------------------- the two reply shapes
\* Every keyword the normalisation knows.
Vocabulary == ListUnsafeWords \cup ListSafeWords \cup ListAmbiguousWords

\* One label with one score, as the list [{label: w, score: 0.8}] and as the
\* object {w: 0.8}.
ListReply(w) == [kind |-> "list", items |-> <<Item(w, 8000)>>]
MapReply(w) == [kind |-> "map", items |-> <<Entry(w, 8000)>>]
ShapedReplies == {ListReply(w) : w \in Vocabulary} \cup {MapReply(w) : w \in Vocabulary}

\* The same labels and scores in the other shape.
OtherShape(r) ==
    IF r.kind = "list"
      THEN [kind |-> "map",
            items |-> [k \in 1..Len(r.items) |->
                          Entry(r.items[k].label, r.items[k].score)]]
      ELSE [kind |-> "list",
            items |-> [k \in 1..Len(r.items) |->
                          Item(r.items[k].key, r.items[k].value)]]

\* analyzeSensitivity over single-label replies of both shapes.
AnalyzeShapes(j) == AnalyzeOver(j, ShapedReplies)

ShapeNext ==
    \E j \in {1} :
        \/ UploadVideo(j)
        \/ SetProcessing(j)
        \/ EmitStart(j)
        \/ ProbeReturn(j)
        \/ AnalyzeShapes(j)
        \/ MockTick(j)
        \/ SetCompleted(j)
        \/ EmitComplete(j)
        \/ SetFailed(j)
        \/ EmitError(j)

ShapeSpec == Init /\ [][ShapeNext]_vars

\* ----------------------------------------------------------------- sockets
\* io.on('connection'): a client's socket connects, in no room but its own.
Connect(c) ==
    /\ sockets[c].state = "new"
    /\ sockets' = [sockets EXCEPT ![c] = [state |-> "connected", rooms |-> {}]]
    /\ UNCHANGED <<apiKey, answer, store, pc, loc, events, calls, replies, frameFiles, resp>>

\* socket.on('disconnect'): the socket is gone and has left its rooms.
Disconnect(c) ==
    /\ sockets[c].state = "connected"
    /\ sockets' = [sockets EXCEPT ![c] = [state |-> "gone", rooms |-> {}]]
    /\ UNCHANGED <<apiKey, answer, store, pc, loc, events, calls, replies, frameFiles, resp>>

\* socket.on('subscribe-video', videoId): socket.join(`video-${videoId}`).
SubscribeVideo(c, v) ==
    /\ sockets[c].state = "connected"
    /\ v \notin sockets[c].rooms
    /\ sockets' = [sockets EXCEPT ![c].rooms = @ \cup {v}]
    /\ UNCHANGED <<apiKey, answer, store, pc, loc, events, calls, replies, frameFiles, resp>>

\* socket.on('unsubscribe-video', videoId): socket.leave(`video-${videoId}`).
UnsubscribeVideo(c, v) ==
    /\ sockets[c].state = "connected"
    /\ v \in sockets[c].rooms
    /\ sockets' = [sockets EXCEPT ![c].rooms = @ \ {v}]
    /\ UNCHANGED <<apiKey, answer, store, pc, loc, events, calls, replies, frameFiles, resp>>

\* The clients' sockets and the run of the first upload request.
ChannelNext ==
    \/ \E c \in Clients :
          \/ Connect(c)
          \/ Disconnect(c)
          \/ \E v \in JobIds : SubscribeVideo(c, v)
          \/ \E v \in JobIds : UnsubscribeVideo(c, v)
    \/ \E j \in {1} :
          \/ UploadVideo(j)
          \/ SetProcessing(j)
          \/ EmitStart(j)
          \/ ProbeReturn(j)
          \/ ExtractReturn(j)
          \/ ClassifyReturn(j)
          \/ DelayDone(j)
          \/ MockTick(j)
          \/ SetCompleted(j)
          \/ EmitComplete(j)
          \/ SetFailed(j)
          \/ EmitError(j)

ChannelSpec == Init /\ [][ChannelNext]_vars

\* ------------------------------------------------- the controller's handlers
\* Whether the user passes the handlers' access check on video j:
\* req.user.role === 'admin' or video.userId equals req.user._id.
MayAccess(u, j) == u.role = "admin" \/ Uploader(j).id = u.id

\* The documents a handler's query matches for the user: every document for
\* an admin, those of the user's organization for the others
\* (if (req.user.role !== 'admin') query.organization = req.user.organization).
Matched(u) ==
    {j \in JobIds : /\ store[j].status # "none"
                    /\ (u.role # "admin" => Uploader(j).organization = u.organization)}

\* VideoController.updateVideo with a title, by an editor or admin who passes
\* the access check: video.title = title and video.save(), whatever the status
\* of the document is. Every other outcome (400, 403, 404, 500) changes nothing.
UpdateVideo(j) ==
    /\ store[j].status # "none"
    /\ \E u \in Users, t \in Titles :
         /\ u.role \in {"editor", "admin"}
         /\ MayAccess(u, j)
         /\ store' = [store EXCEPT ![j].title = t]
    /\ UNCHANGED <<apiKey, sockets, answer, pc, loc, events, calls, replies, frameFiles, resp>>

\* VideoController.getVideos with or without the status filter, first page:
\* the matched documents, or 500 when the query throws.
GetVideos(u) ==
    /\ \E f \in {"any", "completed"}, ok \in BOOLEAN :
         answer' = IF ok
                    THEN [NoReply EXCEPT !.op = "list", !.user = u.id, !.code = 200,
                             !.filter = f,
                             !.videos = {j \in Matched(u) :
                                            f = "any" \/ store[j].status = f}]
                    ELSE [NoReply EXCEPT !.op = "list", !.user = u.id, !.code = 500]
    /\ UNCHANGED <<apiKey, sockets, store, pc, loc, events, calls, replies, frameFiles, resp>>

\* The $group stage of getStats over the matched documents.
CountWhere(js, field, value) == Cardinality({j \in js : store[j][field] = value})

\* VideoController.getStats: the counts over the matched documents and the
\* organization they are reported for, or 500 when the aggregation throws.
GetStats(u) ==
    /\ \E ok \in BOOLEAN :
         answer' = IF ok
                    THEN [NoReply EXCEPT !.op = "stats", !.user = u.id, !.code = 200,
                             !.stats =
                                [totalVideos |-> Cardinality(Matched(u)),
                                 pending |-> CountWhere(Matched(u), "status", "pending"),
                                 processing |-> CountWhere(Matched(u), "status", "processing"),
                                 completed |-> CountWhere(Matched(u), "status", "completed"),
                                 failed |-> CountWhere(Matched(u), "status", "failed"),
                                 safe |-> CountWhere(Matched(u), "sensitivityFlag", "safe"),
                                 flagged |-> CountWhere(Matched(u), "sensitivityFlag", "flagged")],
                             !.organization =
                                IF u.role = "admin" THEN "all" ELSE u.organization]
                    ELSE [NoReply EXCEPT !.op = "stats", !.user = u.id, !.code = 500]
    /\ UNCHANGED <<apiKey, sockets, store, pc, loc, events, calls, replies, frameFiles, resp>>

\* A faulty variant of StreamVideo: the status is not looked at.
StreamVideo_AnyStatus(u, j) ==
    /\ \E range \in BOOLEAN, ok \in BOOLEAN :
         LET r == [NoReply EXCEPT !.op = "stream", !.user = u.id, !.job = j] IN
         answer' =
            IF ~ok THEN [r EXCEPT !.code = 500]
            ELSE IF store[j].status = "none" THEN [r EXCEPT !.code = 404]
            ELSE IF ~MayAccess(u, j) THEN [r EXCEPT !.code = 403]
            ELSE [r EXCEPT !.code = IF range THEN 206 ELSE 200, !.content = TRUE]
    /\ UNCHANGED <<apiKey, sockets, store, pc, loc, events, calls, replies, frameFiles, resp>>

\* VideoController.streamVideo: 404 without a document, 403 for a user who
\* fails the access check, 400 with the status while it is not 'completed',
\* else the file's bytes with 206 (Range header) or 200; 500 when findById or
\* fs.statSync throws.
StreamVideo(u, j) ==
    /\ \E range \in BOOLEAN, ok \in BOOLEAN :
         LET r == [NoReply EXCEPT !.op = "stream", !.user = u.id, !.job = j] IN
         answer' =
            IF ~ok THEN [r EXCEPT !.code = 500]
            ELSE IF store[j].status = "none" THEN [r EXCEPT !.code = 404]
            ELSE IF ~MayAccess(u, j) THEN [r EXCEPT !.code = 403]
            ELSE IF store[j].status # "completed"
              THEN [r EXCEPT !.code = 400, !.status = store[j].status]
            ELSE [r EXCEPT !.code = IF range THEN 206 ELSE 200, !.content = TRUE]
    /\ UNCHANGED <<apiKey, sockets, store, pc, loc, events, calls, replies, frameFiles, resp>>

\* analyzeSensitivity's extraction and loop as one step over the classifier's
\* replies: the store is neither read nor written in between.
AnalyzeFrames(j) == AnalyzeOver(j, ClassifierReplies)

\* The controller's handlers and the run of the first upload request.
ControllerNext ==
    \/ \E u \in Users : GetVideos(u) \/ GetStats(u)
    \/ \E j \in {1} :
          \/ \E u \in Users : StreamVideo(u, j)
          \/ UpdateVideo(j)
          \/ UploadVideo(j)
          \/ DeleteVideo(j)
          \/ SetProcessing(j)
          \/ EmitStart(j)
          \/ ProbeReturn(j)
          \/ AnalyzeFrames(j)
          \/ MockTick(j)
          \/ SetCompleted(j)
          \/ EmitComplete(j)
          \/ SetFailed(j)
          \/ EmitError(j)

\* The handlers never read the classifier's key: the server is taken with the
\* key configured, where a run reaches both the real verdict and the mock.
ControllerInit == Init /\ apiKey = "real"

ControllerSpec == ControllerInit /\ [][ControllerNext]_vars

\* ================================================================== claims
Terminal == {"completed", "failed"}
Settled(j) == pc[j] \in {"resolved", "rejected"}
EventsOfType(j, types) == {k \in 1..Len(events[j]) : events[j][k].type \in types}
TerminalEvents(j) == EventsOfType(j, {"complete", "error"})

\* A change of the persisted status of an existing document, as a pair.
StatusStep(j) == <<store[j].status, store'[j].status>>
StatusChanges(j) ==
    /\ store[j].status # "none"
    /\ store'[j].status # "none"
    /\ store'[j].status # store[j].status

\* C1 (as claimed): the persisted status of a job only changes along
\* pending -> processing -> completed or pending -> processing -> failed.
C1_StatusPathOnly ==
    [][\A j \in JobIds :
          StatusChanges(j) =>
            StatusStep(j) \in {<<"pending", "processing">>,
                               <<"processing", "completed">>,
                               <<"processing", "failed">>}]_vars

\* C1 (amended): the persisted status of a job only changes along
\* pending -> processing -> completed, pending -> processing -> failed, or
\* pending -> failed, the last only when the run's first store update was
\* rejected; a document is created pending, the status never returns to
\* pending and never changes once it is completed or failed.
C1_StatusPathOrEarlyFailure ==
    [][\A j \in JobIds :
          /\ StatusChanges(j) =>
               \/ StatusStep(j) \in {<<"pending", "processing">>,
                                     <<"processing", "completed">>,
                                     <<"processing", "failed">>}
               \/ /\ StatusStep(j) = <<"pending", "failed">>
                  /\ loc[j].error = "store"
                  /\ events[j] = <<>>
          /\ (store[j].status = "none" /\ store'[j].status # "none")
               => store'[j].status = "pending"]_vars

\* C1 witness: a job failed without ever having been processing: no event was
\* emitted and no external call made.
C1_Witness ==
    \E j \in JobIds :
        store[j].status = "failed" /\ events[j] = <<>> /\ calls[j] = <<>>

\* C2 (as claimed): the events of a job hold at most one terminal event, no
\* event follows it, and a run that has settled emitted exactly one.
C2_ExactlyOneTerminalEvent ==
    \A j \in JobIds :
        /\ Cardinality(TerminalEvents(j)) <= 1
        /\ \A k \in TerminalEvents(j) : k = Len(events[j])
        /\ Settled(j) => Cardinality(TerminalEvents(j)) = 1

\* C2 (amended): the events of a job hold at most one terminal event, never a
\* completion and a failure event both, and no event follows it; a run that
\* has settled emitted exactly one, except that it emitted none when the store
\* rejected the catch block's 'failed' update.
C2_OneTerminalEventUnlessStoreRejects ==
    \A j \in JobIds :
        /\ Cardinality(TerminalEvents(j)) <= 1
        /\ \A k \in TerminalEvents(j) : k = Len(events[j])
        /\ Settled(j) =>
             IF loc[j].catchRejected
               THEN TerminalEvents(j) = {}
               ELSE Cardinality(TerminalEvents(j)) = 1
        /\ pc[j] = "resolved" => EventsOfType(j, {"complete"}) # {}
        /\ (pc[j] = "rejected" /\ ~loc[j].catchRejected)
             => EventsOfType(j, {"error"}) # {}

\* C2 witness: a run that failed at the probe and announced it.
C2_Witness ==
    \E j \in JobIds :
        /\ pc[j] = "rejected"
        /\ loc[j].thrown = "probe"
        /\ events[j][Len(events[j])].type = "error"

\* C3 (as claimed): the progress values of the successive progress events of
\* a job are non-decreasing.
C3_ProgressNonDecreasing ==
    \A j \in JobIds :
        \A a \in EventsOfType(j, {"progress"}), b \in EventsOfType(j, {"progress"}) :
            a < b => events[j][a].progress <= events[j][b].progress

\* C4: a job whose persisted status is completed has processProgress 100 and
\* sensitivityFlag safe or flagged.
C4_CompletedHasVerdict ==
    \A j \in JobIds :
        store[j].status = "completed" =>
            /\ store[j].processProgress = 100
            /\ store[j].sensitivityFlag \in {"safe", "flagged"}

\* C4 witness: a completed job whose verdict came from the real classifier.
C4_Witness ==
    \E j \in JobIds :
        /\ store[j].status = "completed"
        /\ ~loc[j].result.mock
        /\ loc[j].result.sensitivityFlag = "flagged"

\* C5 (as claimed, in the form a finite run refutes, and only for runs none
\* of whose store updates was rejected): a job on which processVideo has
\* started and whose run can take no further step has persisted status
\* completed or failed, whatever the probe, the extraction and the classifier
\* do.
StoreAccepted(j) == loc[j].error # "store" /\ ~loc[j].catchRejected
C5_RunEndsInTerminalStatus ==
    \A j \in JobIds :
        (pc[j] \notin {"idle", "refused", "scheduled"} /\ store[j].status # "none"
            /\ StoreAccepted(j) /\ ~ENABLED RunStep(j))
          => store[j].status \in Terminal

\* The classifier calls of a job, the frames whose reply was turned into
\* scores, and the loop having ended.
ClassifyCalls(j) == SelectSeq(calls[j], LAMBDA c : c.op = "classify")
\* The scores of each reply, tabulated.
ScoresOf == [r \in ClassifierReplies \cup AnalysisReplies |-> Normalise(r)]
Scored(r) == r.kind # "error" /\ ~ScoresOf[r].threw
ScoredFrames(j) == {k \in 1..Len(replies[j]) : Scored(replies[j][k])}
FlaggedFrameSet(j) ==
    {k \in ScoredFrames(j) : ScoresOf[replies[j][k]].nsfwScore > FrameThreshold}
RECURSIVE SumNsfw(_)
SumNsfw(rs) ==
    IF rs = <<>> THEN 0
    ELSE (IF Scored(Head(rs)) THEN ScoresOf[Head(rs)].nsfwScore ELSE 0)
         + SumNsfw(Tail(rs))
LoopOver(j) == loc[j].extracted /\ loc[j].i >= loc[j].frames
AllCallsFailed(j) ==
    LoopOver(j) /\ \A k \in 1..Len(replies[j]) : replies[j][k].kind = "error"
HasResult(j) == loc[j].result # NoResult
InCatch(j) == pc[j] \in {"catch", "emitError", "rejected"}
LastEventType(j) ==
    IF events[j] = <<>> THEN "none" ELSE events[j][Len(events[j])].type

\* C6 (as claimed): when the probe succeeded and every classifier call failed
\* or no frame was extracted, the job is never failed, a settled run left it
\* completed, and the verdict is the mock's, safe or flagged, with a
\* confidence in [0.7, 1.0].
C6_ZeroSuccessCompletes ==
    \A j \in JobIds :
        AllCallsFailed(j) =>
            /\ store[j].status # "failed"
            /\ (Settled(j) /\ store[j].status # "none")
                 => store[j].status = "completed"
            /\ HasResult(j) =>
                 /\ loc[j].result.mock
                 /\ loc[j].result.sensitivityFlag \in {"safe", "flagged"}
                 /\ loc[j].result.confidence \in 7000..10000

\* C6 (amended): when the probe succeeded and every classifier call failed or
\* no frame was extracted, the verdict is the mock's, safe or flagged, with a
\* confidence in [0.7, 1.0], and the job reaches completed with that flag
\* unless the store rejects the 'completed' update: only that rejection makes
\* the job failed.
C6_ZeroSuccessCompletesUnlessStoreRejects ==
    \A j \in JobIds :
        AllCallsFailed(j) =>
            /\ pc[j] = "mock" \/ HasResult(j)
            /\ HasResult(j) =>
                 /\ loc[j].result.mock
                 /\ loc[j].result.sensitivityFlag \in {"safe", "flagged"}
                 /\ loc[j].result.confidence \in 7000..10000
            /\ (InCatch(j) \/ store[j].status = "failed") => loc[j].error = "store"
            /\ Settled(j) /\ loc[j].error = "none" => pc[j] = "resolved"
            /\ (pc[j] = "resolved" /\ store[j].status # "none") =>
                 /\ store[j].status = "completed"
                 /\ store[j].sensitivityFlag = loc[j].result.sensitivityFlag

\* C6 witness: two frames, both classifier calls failed, the job completed.
C6_Witness ==
    \E j \in JobIds :
        /\ AllCallsFailed(j)
        /\ Len(replies[j]) = 2
        /\ pc[j] = "resolved"
        /\ store[j].status = "completed"
        /\ loc[j].result.confidence > ConfidenceCap

\* The probe failed: the error that entered the catch block is the probe's.
ProbeFailed(j) == loc[j].error = "probe"
ProbeFailureReported(j) ==
    /\ loc[j].thrown = "probe"
    /\ Cardinality(EventsOfType(j, {"error"})) = 1
    /\ \A k \in EventsOfType(j, {"error"}) : events[j][k].error = "probe"
    /\ store[j].status # "none" =>
         /\ store[j].status = "failed"
         /\ store[j].errorMessage = "probe"

\* C7 (as claimed): when getVideoMetadata fails, the only external call of the
\* run is the one probe (no extraction, no classifier call, no retry), and the
\* settled run persisted failed with the error's message, emitted one failure
\* event and rethrew the error.
C7_ProbeFailureFailsJob ==
    \A j \in JobIds :
        ProbeFailed(j) =>
            /\ calls[j] = <<[op |-> "probe", frame |-> 0]>>
            /\ Settled(j) => pc[j] = "rejected" /\ ProbeFailureReported(j)

\* C7 (amended): when getVideoMetadata fails, the only external call of the
\* run is the one probe, and the settled run persisted failed with the error's
\* message, emitted one failure event and rethrew the error, unless the store
\* rejected the 'failed' update: then the job is not persisted as failed, no
\* failure event is emitted and the store's error reaches the caller.
C7_ProbeFailureFailsJobUnlessStoreRejects ==
    \A j \in JobIds :
        ProbeFailed(j) =>
            /\ calls[j] = <<[op |-> "probe", frame |-> 0]>>
            /\ EventsOfType(j, {"complete"}) = {}
            /\ Settled(j) =>
                 /\ pc[j] = "rejected"
                 /\ IF loc[j].catchRejected
                      THEN /\ loc[j].thrown = "store"
                           /\ TerminalEvents(j) = {}
                           /\ store[j].status \in {"processing", "none"}
                      ELSE ProbeFailureReported(j)

\* C7 witness: a probe failure persisted and reported.
C7_Witness ==
    \E j \in JobIds :
        /\ ProbeFailed(j)
        /\ pc[j] = "rejected"
        /\ store[j].status = "failed"
        /\ store[j].errorMessage = "probe"
        /\ LastEventType(j) = "error"

\* extractFrames was called after a successful probe and rejected.
ExtractFailed(j) ==
    /\ loc[j].metadata
    /\ ~loc[j].extracted
    /\ Len(calls[j]) = 2
    /\ pc[j] \notin {"extract", "hung"}

\* C8 (as claimed): when extractFrames fails after a successful probe, the job
\* is not failed and no failure event is emitted; the verdict is the mock's
\* and the settled run left the job completed, with a completion event.
C8_ExtractFailureCompletes ==
    \A j \in JobIds :
        ExtractFailed(j) =>
            /\ store[j].status # "failed"
            /\ EventsOfType(j, {"error"}) = {}
            /\ HasResult(j) => loc[j].result.mock
            /\ Settled(j) =>
                 /\ pc[j] = "resolved"
                 /\ LastEventType(j) = "complete"
                 /\ store[j].status # "none" => store[j].status = "completed"

\* C8 (amended): when extractFrames fails after a successful probe,
\* analyzeSensitivity catches the error and returns the mock verdict without a
\* classifier call, and the job ends completed with a completion event and no
\* failure event, unless the store rejects the 'completed' update: only that
\* rejection fails the job.
C8_ExtractFailureCompletesUnlessStoreRejects ==
    \A j \in JobIds :
        ExtractFailed(j) =>
            /\ ClassifyCalls(j) = <<>>
            /\ pc[j] = "mock" \/ HasResult(j)
            /\ HasResult(j) => loc[j].result.mock
            /\ (InCatch(j) \/ store[j].status = "failed"
                    \/ EventsOfType(j, {"error"}) # {})
                 => loc[j].error = "store"
            /\ Settled(j) /\ loc[j].error = "none" => pc[j] = "resolved"
            /\ pc[j] = "resolved" =>
                 /\ LastEventType(j) = "complete"
                 /\ EventsOfType(j, {"error"}) = {}
                 /\ store[j].status # "none" => store[j].status = "completed"

\* C8 witness: extraction failed and the job completed with a completion event.
C8_Witness ==
    \E j \in JobIds :
        /\ ExtractFailed(j)
        /\ pc[j] = "resolved"
        /\ store[j].status = "completed"
        /\ LastEventType(j) = "complete"

\* C9: the frames are submitted to the classifier one after the other in
\* order, a failed call stops neither the loop nor the job (when the loop is
\* over every extracted frame was submitted and answered), and only the
\* frames whose reply was turned into scores count in flaggedFrames,
\* totalNsfwScore and detectedIssues: a failed call contributes nothing.
C9_FailedFrameSkipped ==
    \A j \in JobIds :
        LET cc == ClassifyCalls(j)
            issues == loc[j].detectedIssues IN
        /\ \A k \in 1..Len(cc) : cc[k].frame = k
        /\ Len(cc) = Len(replies[j]) + (IF pc[j] = "classify" THEN 1 ELSE 0)
        /\ Len(cc) <= loc[j].frames
        /\ LoopOver(j) => Len(replies[j]) = loc[j].frames
        /\ loc[j].flaggedFrames = Cardinality(FlaggedFrameSet(j))
        /\ loc[j].totalNsfwScore = SumNsfw(replies[j])
        /\ Range(issues) = FlaggedFrameSet(j)
        /\ \A a \in 1..Len(issues), b \in 1..Len(issues) :
               a < b => issues[a] < issues[b]
        /\ (\E k \in 1..Len(replies[j]) : replies[j][k].kind = "error")
               => (InCatch(j) => loc[j].error = "store")

\* C9 witness: the call for frame 1 failed, frame 2 was still submitted and
\* flagged, and the loop ended with one flagged frame.
C9_Witness ==
    \E j \in JobIds :
        /\ LoopOver(j)
        /\ Len(replies[j]) = 2
        /\ replies[j][1].kind = "error"
        /\ loc[j].flaggedFrames = 1
        /\ loc[j].detectedIssues = <<2>>
        /\ loc[j].totalNsfwScore = 9000

\* C10 (as claimed): a frame whose reply cannot be normalised is a failed
\* frame: apiSuccessCount counts only the frames turned into scores, and when
\* the loop is over with no such frame the mock classifier gives the verdict.
C10_MalformedFrameNotCounted ==
    \A j \in JobIds :
        /\ loc[j].apiSuccessCount = Cardinality(ScoredFrames(j))
        /\ (LoopOver(j) /\ ScoredFrames(j) = {} /\ HasResult(j))
             => loc[j].result.mock

\* A run whose verdict was computed by analyzeSensitivity from frame scores.
RealResult(j) == HasResult(j) /\ ~loc[j].result.mock

\* C11: for every real verdict, sensitivityFlag is safe if and only if no
\* frame was flagged and averageNsfwScore (totalNsfwScore / apiSuccessCount)
\* is strictly below 0.5, and flagged otherwise; so an average of 0.5 or more
\* without a flagged frame is flagged, and so is any run with a flagged frame.
C11_SafeIffNoFlagAndLowAverage ==
    \A j \in JobIds :
        RealResult(j) =>
            LET noFlag == FlaggedFrameSet(j) = {}
                lowAverage == 2 * SumNsfw(replies[j]) < 10000 * loc[j].apiSuccessCount IN
            /\ loc[j].result.sensitivityFlag \in {"safe", "flagged"}
            /\ loc[j].result.sensitivityFlag = "safe" <=> (noFlag /\ lowAverage)
            /\ ~lowAverage => loc[j].result.sensitivityFlag = "flagged"
            /\ ~noFlag => loc[j].result.sensitivityFlag = "flagged"

\* C11 witness: a real verdict flagged with no flagged frame, the average
\* being exactly 0.5.
C11_Witness ==
    \E j \in JobIds :
        /\ RealResult(j)
        /\ FlaggedFrameSet(j) = {}
        /\ 2 * SumNsfw(replies[j]) = 10000 * loc[j].apiSuccessCount
        /\ loc[j].result.sensitivityFlag = "flagged"

\* The confidence c (in 1/10000) is min(1.1 * num / den, 0.99) in 1/10000,
\* rounded to three decimals.
IsCappedConfidence(c, num, den) ==
    IF 11 * num >= 9900 * 10 * den
      THEN c = ConfidenceCap
      ELSE /\ 10 * c * den - 11 * num <= 50 * den
           /\ 11 * num - 10 * c * den <= 50 * den

\* C12 (as claimed, the confidence read up to its three decimals): for every
\* real verdict the average is the sum of the nsfwScore of the frames turned
\* into scores divided by their number, the failed frames being in neither:
\* the flag and the confidence are the ones that average gives.
C12_AverageOverScoredFrames ==
    \A j \in JobIds :
        RealResult(j) =>
            LET n == Cardinality(ScoredFrames(j))
                sum == SumNsfw(replies[j])
                safe == FlaggedFrameSet(j) = {} /\ 2 * sum < 10000 * n IN
            /\ n > 0
            /\ loc[j].result.sensitivityFlag = (IF safe THEN "safe" ELSE "flagged")
            /\ IsCappedConfidence(loc[j].result.confidence,
                                  IF safe THEN 10000 * n - sum ELSE sum, n)

\* C13 (as claimed): the confidence of every verdict carried by a completion
\* event lies in [0, 0.99].
C13_ConfidenceAtMost099 ==
    \A j \in JobIds :
        \A k \in EventsOfType(j, {"complete"}) :
            events[j][k].confidence \in 0..9900

\* C13 (amended): the confidence carried by a completion event lies in
\* [0, 0.99] when the verdict was computed by analyzeSensitivity from frame
\* scores, and in [0.7, 1.0) when analyzeSensitivityMock produced it.
C13_ConfidenceRangeByVerdictKind ==
    \A j \in JobIds :
        \A k \in EventsOfType(j, {"complete"}) :
            /\ events[j][k].confidence = loc[j].result.confidence
            /\ IF loc[j].result.mock
                 THEN events[j][k].confidence \in 7000..9999
                 ELSE events[j][k].confidence \in 0..9900

\* C13 witness: a completion event carrying a mock confidence above 0.99.
C13_Witness ==
    \E j \in JobIds :
        /\ HasResult(j) /\ loc[j].result.mock
        /\ LastEventType(j) = "complete"
        /\ events[j][Len(events[j])].confidence > ConfidenceCap

\* C14 (as claimed): processedAt is absent while the status is pending or
\* processing, and every job whose status is completed or failed has it set.
C14_ProcessedAtAtTerminal ==
    \A j \in JobIds :
        /\ store[j].status \in {"pending", "processing"} => ~store[j].processedAt
        /\ store[j].status \in Terminal => store[j].processedAt

\* C15: a job's errorMessage is present only if its persisted status is
\* failed, and it is the message of the error that failed the run.
C15_ErrorMessageOnlyWhenFailed ==
    \A j \in JobIds :
        store[j].errorMessage # "none" =>
            /\ store[j].status = "failed"
            /\ store[j].errorMessage = loc[j].error

\* C15 witness: a job failed by a rejected store update holds that error's
\* message.
C15_Witness ==
    \E j \in JobIds :
        /\ store[j].status = "failed"
        /\ store[j].errorMessage = "store"
        /\ pc[j] = "rejected"

\* C16: a job's persisted sensitivityFlag differs from pending, or its
\* metadata is populated, only if its status is completed; the flag is then
\* the verdict's.
C16_VerdictOnlyWhenCompleted ==
    \A j \in JobIds :
        (store[j].sensitivityFlag # "pending" \/ store[j].hasMetadata) =>
            /\ store[j].status = "completed"
            /\ store[j].hasMetadata
            /\ store[j].sensitivityFlag = loc[j].result.sensitivityFlag

\* C16 witness: a job failed after its verdict was computed (the 'completed'
\* update was rejected) holds neither the verdict nor the metadata.
C16_Witness ==
    \E j \in JobIds :
        /\ store[j].status = "failed"
        /\ HasResult(j)
        /\ loc[j].metadata
        /\ store[j].sensitivityFlag = "pending"
        /\ ~store[j].hasMetadata

\* The clients subscribed to job j's channel: the members of room video-j.
Subscribers(j) ==
    {c \in Clients : sockets[c].state = "connected" /\ j \in sockets[c].rooms}

\* C17 (as claimed): an event published for job j is delivered only to the
\* clients subscribed to j's channel when it is published.
C17_OnlySubscribersReceive ==
    [][\A j \in JobIds :
          \A k \in (Len(events[j]) + 1)..Len(events'[j]) :
              events'[j][k].to \subseteq Subscribers(j)]_vars

\* The starts of processVideo for job j seen from outside: its first progress
\* event and its probe call.
RunStarts(j) ==
    {k \in EventsOfType(j, {"progress"}) : events[j][k].progress = 0}
ProbeCalls(j) == SelectSeq(calls[j], LAMBDA c : c.op = "probe")
Accepted(j) == resp[j].code = 201

\* C18: processVideo is queued exactly when an upload is accepted (its record
\* stored, response 201), never for a request refused with 400 or 500, and a
\* job is run at most once: one first progress event, one probe call.
C18_OneRunPerStoredUpload ==
    \A j \in JobIds :
        /\ Accepted(j) <=> pc[j] \notin {"idle", "refused"}
        /\ pc[j] = "refused" <=> resp[j].code \in {400, 500}
        /\ pc[j] \in {"idle", "refused"} =>
              /\ store[j].status = "none"
              /\ events[j] = <<>> /\ calls[j] = <<>> /\ loc[j] = InitLoc
        /\ Cardinality(RunStarts(j)) <= 1
        /\ Len(ProbeCalls(j)) <= 1
        /\ pc[j] \notin {"idle", "refused", "scheduled", "catch", "emitStart"}
              => Len(ProbeCalls(j)) = 1 \/ loc[j].error = "store"

\* C18 witness: an accepted upload whose one run has ended, after one probe.
C18_Witness ==
    \E j \in JobIds :
        /\ Accepted(j)
        /\ pc[j] = "resolved"
        /\ Cardinality(RunStarts(j)) = 1
        /\ Len(ProbeCalls(j)) = 1

\* C19: the 201 response is sent before processVideo's first store update:
\* whenever the run is queued, under way, ended or hung, the response was
\* sent, and it reports status pending.
C19_ResponseBeforeFirstUpdate ==
    \A j \in JobIds :
        /\ Accepted(j) => resp[j].status = "pending"
        /\ pc[j] \notin {"idle", "refused"} => Accepted(j)
        /\ store[j].status \notin {"none", "pending"} => Accepted(j)
        /\ events[j] # <<>> => Accepted(j)

\* C19 witness: the response was sent for a job whose run never finishes.
C19_Witness ==
    \E j \in JobIds :
        /\ pc[j] = "hung"
        /\ store[j].status = "processing"
        /\ resp[j] = [code |-> 201, status |-> "pending"]

\* C20: the external calls of a run are made in the order probe, extraction,
\* frame 1, frame 2, ...; the extraction starts only after the probe has
\* returned, a frame is submitted only after the reply to the one before, so
\* at most one classifier call is in flight; the final progress event and the
\* 'completed' update come only after the last frame was handled.
C20_StagesSequential ==
    \A j \in JobIds :
        LET cs == calls[j]
            inFlight == Len(ClassifyCalls(j)) - Len(replies[j]) IN
        /\ \A k \in 1..Len(cs) :
              /\ cs[k].op = "probe" => k = 1
              /\ cs[k].op = "extract" => k = 2 /\ loc[j].metadata
              /\ cs[k].op = "classify" =>
                    /\ k = 2 + cs[k].frame
                    /\ loc[j].extracted
                    /\ Len(replies[j]) >= cs[k].frame - 1
        /\ pc[j] = "probe" => Len(cs) = 1
        /\ pc[j] = "extract" => Len(cs) = 2
        /\ inFlight \in {0, 1}
        /\ inFlight = 1 <=> pc[j] = "classify"
        /\ (pc[j] \in {"completing", "emitComplete", "resolved"}
               \/ store[j].status = "completed"
               \/ \E k \in EventsOfType(j, {"progress"}) : events[j][k].progress = 100)
              => /\ HasResult(j)
                 /\ loc[j].metadata
                 /\ RealResult(j) =>
                       LoopOver(j) /\ Len(replies[j]) = loc[j].frames

\* C20 witness: the second frame is with the classifier, the first answered.
C20_Witness ==
    \E j \in JobIds :
        /\ pc[j] = "classify"
        /\ Len(replies[j]) = 1
        /\ Len(ClassifyCalls(j)) = 2

\* ------------------------------------------------------------------- C21
\* C21: when HUGGINGFACE_API_KEY is absent or left at the placeholder value, no
\* job classifies for real: no frame is submitted to the classifier, and every
\* verdict comes from analyzeSensitivityMock.
C21_UnconfiguredSkipsClassifier ==
    apiKey \in {"absent", "placeholder"} =>
        \A j \in JobIds :
            /\ ClassifyCalls(j) = <<>>
            /\ HasResult(j) => loc[j].result.mock

\* ------------------------------------------------------------------- C22
\* C22: while the status of a job's document is pending or processing, only a
\* step of the job's processVideo run changes or removes the document.
C22_OnlyRunMutatesUnfinished ==
    [][\A j \in JobIds :
          (store[j].status \in {"pending", "processing"} /\ store'[j] # store[j])
              => RunStep(j)]_vars

\* ------------------------------------------------------------------- C23
\* C23: the frame files extractFrames wrote for a job are all still in the
\* job's frames directory from then on: after cleanupFrames, and after the job
\* has completed or failed, on the real and on the fallback path.
C23_FramesKept ==
    \A j \in JobIds : loc[j].extracted => frameFiles[j] = 1..loc[j].frames

\* A job completed on the real path with both of its frame files on disk.
C23_Witness ==
    \E j \in JobIds :
        /\ store[j].status = "completed"
        /\ LoopOver(j)
        /\ ~loc[j].result.mock
        /\ loc[j].frames = 2
        /\ frameFiles[j] = {1, 2}

\* ------------------------------------------------------------------- C24
\* C24: a classifier result gives the same (nsfwScore, normalScore) whether it
\* is delivered as a list of {label, score} pairs or as a flat label -> score
\* mapping, for every keyword of the unsafe, safe and ambiguous vocabularies.
C24_SameScoresInBothShapes ==
    \A j \in JobIds : \A k \in 1..Len(replies[j]) :
        replies[j][k].kind \in {"list", "map"} =>
            Normalise(replies[j][k]) = Normalise(OtherShape(replies[j][k]))

\* ------------------------------------------------------------------- C25
\* The stored videos of an organization.
VideosOf(org) ==
    {j \in JobIds : store[j].status # "none" /\ Uploader(j).organization = org}

\* C25: whoever asks, an admin included, the list of getVideos holds only
\* videos of the asking user's organization, and the statistics of getStats
\* count exactly the videos of that organization.
C25_TenantIsolation ==
    [][(answer' # answer /\ answer'.code = 200) =>
          LET u == CHOOSE u \in Users : u.id = answer'.user IN
          /\ answer'.op = "list" => answer'.videos \subseteq VideosOf(u.organization)
          /\ answer'.op = "stats" =>
                answer'.stats.totalVideos = Cardinality(VideosOf(u.organization))]_vars

\* ------------------------------------------------------------------- C26
\* C26: when the video stream's r_frame_rate is absent or is no
\* numerator/denominator pair, getVideoMetadata still returns the metadata,
\* with fps 0, and the job goes on to the sensitivity analysis.
C26_FrameRateNeverFailsProbe ==
    \A j \in JobIds :
        loc[j].rFrameRate.kind \in {"absent", "text"} =>
            /\ loc[j].metadata
            /\ loc[j].fps = Fps(0)
            /\ pc[j] # "crashed"

\* ------------------------------------------------------------------- C27
\* What belongs to job j changes in the step: its document, its events, or
\* the position, locals, calls, replies and frame files of its run.
Changed(j) ==
    \/ store'[j] # store[j]
    \/ events'[j] # events[j]
    \/ pc'[j] # pc[j]
    \/ loc'[j] # loc[j]
    \/ calls'[j] # calls[j]
    \/ replies'[j] # replies[j]
    \/ frameFiles'[j] # frameFiles[j]

C28_FlaggedFramesAndIssues ==
    \A j \in JobIds :
        RealResult(j) =>
            LET above == {k \in ScoredFrames(j) : ScoresOf[replies[j][k]].nsfwScore > 6000}
                issues == loc[j].detectedIssues IN
            /\ loc[j].flaggedFrames = Cardinality(above)
            /\ Len(issues) = loc[j].flaggedFrames
            /\ Range(issues) = above
            /\ \A m \in 1..(Len(issues) - 1) : issues[m] < issues[m + 1]
            /\ loc[j].result.detectedIssues =
                  IF loc[j].result.sensitivityFlag = "safe" THEN <<>> ELSE issues

\* A verdict over a frame scored exactly 0.6 and a frame scored 0.6001: only
\* the second frame is flagged and named.
C28_Witness ==
    \E j \in JobIds :
        /\ RealResult(j)
        /\ replies[j] = <<ReplyScore(6000), ReplyScore(6001)>>
        /\ loc[j].flaggedFrames = 1
        /\ loc[j].result.detectedIssues = <<2>>

\* ------------------------------------------------------------------- C29
\* C29: in the step that emits the complete event of a job the store holds
\* the job's document with status completed and the event's sensitivityFlag;
\* in the step that emits its error event the store holds the document with
\* status failed and the event's message. Also when the controller edits or
\* deletes the document while the job runs.
C29_TerminalEventsBehindStore ==
    [][\A j \in JobIds :
          events'[j] # events[j] =>
              LET e == events'[j][Len(events'[j])] IN
              /\ e.type = "complete" =>
                    /\ store'[j].status = "completed"
                    /\ store'[j].sensitivityFlag = e.sensitivityFlag
              /\ e.type = "error" =>
                    /\ store'[j].status = "failed"
                    /\ store'[j].errorMessage = e.error]_vars

\* ------------------------------------------------------------------- C30
\* The step is streamVideo answering user u about video j.
Streamed(u, j) ==
    /\ answer' # answer
    /\ answer'.op = "stream"
    /\ answer'.user = u.id
    /\ answer'.job = j

\* C30 as claimed: for a video whose stored status is pending, processing or
\* failed, streamVideo answers 400 and sends no file content, whoever asks
\* (a failing lookup, answered 500, set aside).
C30_NotReadyAnswers400 ==
    [][\A u \in Users : \A j \in JobIds :
          (Streamed(u, j) /\ store[j].status \in {"pending", "processing", "failed"}
                /\ answer'.code # 500)
              => (answer'.code = 400 /\ ~answer'.content)]_vars

\* C30, amended: streamVideo sends file content only for a video whose stored
\* status is completed at the request. For a pending, processing or failed
\* video it sends none: the owner and admins get 400 with the status, every
\* other user gets 403 (and anyone 500 when the lookup throws).
C30_NoBytesUnlessCompleted ==
    [][\A u \in Users : \A j \in JobIds :
          Streamed(u, j) =>
              /\ answer'.content =>
                    (store[j].status = "completed" /\ answer'.code \in {200, 206})
              /\ store[j].status \in {"pending", "processing", "failed"} =>
                    /\ ~answer'.content
                    /\ IF u.role = "admin" \/ Uploader(j).id = u.id
                         THEN /\ answer'.code \in {400, 500}
                              /\ answer'.code = 400 => answer'.status = store[j].status
                         ELSE answer'.code \in {403, 500}]_vars

\* The owner was answered 400 for a video still in processing.
C30_Witness ==
    /\ answer.op = "stream"
    /\ answer.code = 400
    /\ answer.status = "processing"
    /\ answer.user = Uploader(answer.job).id
====
